---- MODULE Spec2Model ----
(***************************************************************************)
(* Model of the panorama creator (PanoramaCreator component): the image    *)
(* list handlers, the sequential stitch driver stitchWithOpenCV, the       *)
(* pairwise pipeline stitchTwoImages and the crop stage cropPanorama.      *)
(*                                                                         *)
(* Coordinates produced by the homography are kept in half pixels (an      *)
(* integer v stands for v/2 px), so that Math.floor, Math.ceil and         *)
(* Math.round are real conversions.  Image widths and heights are pixels.  *)
(* Pixel contents are abstract: a raster is identified by its size and by  *)
(* the position of its first pixel in the canvas it was cut from.          *)
(*                                                                         *)
(* The tour editor (ImageTree component with its PanoramaViewer) is the    *)
(* second part: the tree of image nodes, the dialogs that add a node, the  *)
(* viewer, its hotspots and the tour mode.                                 *)
(***************************************************************************)
EXTENDS Integers, Sequences, FiniteSets, TLC

\* ---------------------------------------------------------------- bounds
\* most images the list may hold
MaxImages == 3
\* an upload is taken only while the status log is shorter than this
MaxLog == 3
\* most keypoints the detector returns in the model
MaxKp == 5
\* largest value of a blurred distance field, in units of 1/DistUnit
MaxDist == 3
\* most query descriptors and largest Hamming distance of the ratio loop
\* taken alone
MaxQueries == 2
MaxHamming == 4
\* most nodes of the tour tree, hotspots in it, panoramas saved and files
\* being read at a time
MaxNodes == 2
MaxHotspots == 1
MaxSaved == 1
MaxReads == 1

\* ------------------------------------------------------ program constants
\* slips of the three thresholds: one too low
MinImagesLow == 2 - 1
MinImages == 2
MinKeypointsLow == 4 - 1
MinKeypoints == 4
MinGoodMatchesLow == 4 - 1
MinGoodMatches == 4
\* m.distance < 0.75 * n.distance, as 4 * m < 3 * n
RatioNum == 3
RatioDen == 4
\* knnMatch(desc_src, desc_dst, matches, 2)
KnnK == 2
\* dst_pix[0] + dst_pix[1] + dst_pix[2] > 10 and src_pix[3] > 10
MaskThreshold == 10
AlphaThreshold == 10
\* total > 0.01, as TotalDen * total > TotalNum
TotalNum == 1
TotalDen == 100

\* ------------------------------------------------------------ arithmetic
Min2(a, b) == IF a <= b THEN a ELSE b
Max2(a, b) == IF a >= b THEN a ELSE b
Abs(a) == IF a < 0 THEN -a ELSE a
MinOf(S) == CHOOSE m \in S : \A e \in S : m <= e
MaxOf(S) == CHOOSE m \in S : \A e \in S : m >= e
\* Math.floor, Math.ceil, Math.round of a half-pixel value, in pixels
Floor2(v) == v \div 2
Ceil2(v) == -((-v) \div 2)
Round2(v) == (v + 1) \div 2

\* ------------------------------------------------------------ input sets
\* img.width x img.height of a decoded upload
ImageSizes == {<<400, 300>>}
\* the two best Hamming distances knnMatch reports for a query descriptor
DistancePairs == {<<2, 4>>, <<3, 4>>}
\* the files the picker offers, named by the last digit of their name; the
\* order of the list is a matter of the calling layer and one name suffices
Files == {0}

\* A 3x3 transform restricted to [sx k bx; 0 sy by; 0 0 1], bx and by in
\* half pixels; the shear k moves a point kn/kd half pixels sideways per
\* row.  empty is the empty Mat findHomography returns on failure.
Hmat(sx, bx, sy, by) ==
    [empty |-> FALSE, sx |-> sx, bx |-> bx, sy |-> sy, by |-> by, kn |-> 0, kd |-> 1]
Sheared(H, kn, kd) == [H EXCEPT !.kn = kn, !.kd = kd]
NoH == [empty |-> TRUE, sx |-> 0, bx |-> 0, sy |-> 0, by |-> 0, kn |-> 0, kd |-> 1]
Invertible(H) == ~H.empty /\ H.sx * H.sy # 0

\* What findHomography may return for a fixed image w_dst x h_dst and a
\* moving image w_src x h_src: translations leaving a 100 px band of
\* overlap on either side (exact and off by half a pixel, with and without
\* a vertical shift), a moving image wholly below the fixed one, a moving
\* image 2 px to the right whose bottom edge leans 5 px to the left,
\* mirrored and rank-deficient matrices, and no matrix at all.
Homographies(w_dst, h_dst, w_src, h_src) ==
    { Hmat(1, 2 * (w_dst - 100), 1, 0),
      Hmat(1, -2 * (w_src - 100), 1, 0),
      Hmat(1, 2 * (w_dst - 100) + 1, 1, 4),
      Hmat(1, -2 * (w_src - 100) - 1, 1, -3),
      Hmat(1, 2 * (w_dst - 100), 1, 2 * h_dst),
      Sheared(Hmat(1, 4, 1, 0), -10, h_src),
      Hmat(-1, 2 * w_src, 1, 0),
      Hmat(-1, 2 * w_src - 2, 1, 0),
      Hmat(0, 2 * (w_dst - 100), 1, 0),
      NoH }

\* ----------------------------------------------------------------- state
VARIABLES
    images,         \* useState images: the upload list (file digits)
    panorama,       \* useState panorama: "" is null
    processing,     \* useState processing
    progress,       \* useState progress
    opencvReady,    \* useState opencvReady
    statusLog,      \* useState statusLog
    showNameModal,  \* useState showNameModal
    alertMsg,       \* the alert() shown since the last run started, "" when none
    pc,             \* position of the running stitchWithOpenCV
    loading,        \* the files handed to loadImage, until Promise.all settles
    bufs,           \* the Mats of the run that carry an image
    mats,           \* mats[]: handles into bufs
    panoramaResult, \* handle of the accumulator, 0 before it exists
    i,              \* loop index of the driver
    calls,          \* the stitchTwoImages invocations of the run
    pair,           \* locals of the running stitchTwoImages
    temps,          \* live non-image objects of the running stitchTwoImages
    leaked,         \* <<pair, name>> of objects never deleted
    rootNode,            \* ImageTree useState rootNode: Null is null
    pendingParentId,     \* useState pendingParentId: 0 is null
    pendingImageUrl,     \* useState pendingImageUrl: "" is null
    showLabelModal,      \* useState showLabelModal
    labelInput,          \* useState labelInput, a sequence of characters
    viewingImage,        \* useState viewingImage: the node object handed to the viewer
    isTourMode,          \* useState isTourMode
    showPanoramaCreator, \* useState showPanoramaCreator
    savedPanoramas,      \* useState savedPanoramas
    showImageSelector,   \* useState showImageSelector
    reading,             \* the files a FileReader is still loading
    contextMenu          \* PanoramaViewer useState contextMenu: FALSE is null

\* the state of the panorama creator and the state of the tour editor
creatorVars == <<images, panorama, processing, progress, opencvReady, statusLog,
                 showNameModal, alertMsg, pc, loading, bufs, mats, panoramaResult,
                 i, calls, pair, temps, leaked>>

tourVars == <<rootNode, pendingParentId, pendingImageUrl, showLabelModal,
              labelInput, viewingImage, isTourMode, showPanoramaCreator,
              savedPanoramas, showImageSelector, reading, contextMenu>>

vars == <<creatorVars, tourVars>>

runVars == <<pc, loading, bufs, mats, panoramaResult, i, calls, pair, temps, leaked>>

Progress(msg, k, n) == [msg |-> msg, i |-> k, n |-> n]
Log(tag, n) == [tag |-> tag, n |-> n]

NoPair ==
    [imageNum |-> 0, dst_img |-> 0, src_img |-> 0,
     kp_dst |-> 0, kp_src |-> 0, matches |-> << >>, good_matches |-> << >>,
     src_pts |-> << >>, H |-> NoH, inlierCount |-> 0,
     corners_src |-> << >>, t_x |-> 0, t_y |-> 0, side |-> "",
     width_pano |-> 0, height_pano |-> 0, dst_x |-> 0, dst_y |-> 0,
     src_warped |-> 0, dst_resized |-> 0, pano |-> 0, cropped_pano |-> 0]

\* no node: the null of rootNode and viewingImage
Null == [id |-> 0, imageUrl |-> "", label |-> << >>, children |-> << >>,
         hotspots |-> << >>]

\* the state of ImageTree after its first render (lines 20-35)
InitTour ==
    /\ rootNode = Null
    /\ pendingParentId = 0
    /\ pendingImageUrl = ""
    /\ showLabelModal = FALSE
    /\ labelInput = << >>
    /\ viewingImage = Null
    /\ isTourMode = FALSE
    /\ showPanoramaCreator = FALSE
    /\ savedPanoramas = << >>
    /\ showImageSelector = FALSE
    /\ reading = << >>
    /\ contextMenu = FALSE

Init ==
    /\ InitTour
    /\ images = << >>
    /\ panorama = ""
    /\ processing = FALSE
    /\ progress = Progress("", 0, 0)
    /\ opencvReady = FALSE
    /\ statusLog = << >>
    /\ showNameModal = FALSE
    /\ alertMsg = ""
    /\ pc = "idle"
    /\ loading = << >>
    /\ bufs = << >>
    /\ mats = << >>
    /\ panoramaResult = 0
    /\ i = 0
    /\ calls = << >>
    /\ pair = NoPair
    /\ temps = {}
    /\ leaked = {}

\* ------------------------------------------------------- the upload list
\* the effect that polls window.cv
checkOpenCV ==
    /\ ~opencvReady
    /\ opencvReady' = TRUE
    /\ UNCHANGED <<images, panorama, processing, progress, statusLog,
                   showNameModal, alertMsg>>
    /\ UNCHANGED runVars
    /\ UNCHANGED tourVars

\* a log that puts the newest entry first
addLogNewestFirst(log, entry) == <<entry>> \o log
addLog(log, entry) == Append(log, entry)

\* position of a file's digit in [2, 1, 0, 3, 4], -1 when absent
OrderIndex(d) ==
    LET order == <<2, 1, 0, 3, 4>>
    IN  IF \E k \in 1..5 : order[k] = d
        THEN (CHOOSE k \in 1..5 : order[k] = d) - 1
        ELSE -1

\* the comparator of files.sort: both digits listed -> by position,
\* otherwise by name (the names differ only in the digit)
FileBefore(a, b) ==
    IF OrderIndex(a) # -1 /\ OrderIndex(b) # -1
    THEN OrderIndex(a) < OrderIndex(b)
    ELSE a < b

RECURSIVE SortFiles(_)
SortFiles(S) ==
    IF S = {} THEN << >>
    ELSE LET f == CHOOSE x \in S : \A y \in S \ {x} : FileBefore(x, y)
         IN  <<f>> \o SortFiles(S \ {f})

\* the list and the upload area are rendered only while no panorama is shown
ListShown == opencvReady /\ panorama = ""

handleImageUpload ==
    /\ ListShown
    /\ Len(statusLog) < MaxLog
    /\ \E files \in SUBSET Files :
        /\ files # {}
        /\ Len(images) + Cardinality(files) <= MaxImages
        /\ images' = images \o SortFiles(files)
        /\ statusLog' = addLog(statusLog, Log("uploaded", Cardinality(files)))
    /\ UNCHANGED <<panorama, processing, progress, opencvReady, showNameModal, alertMsg>>
    /\ UNCHANGED runVars
    /\ UNCHANGED tourVars

Swap(s, a, b) == [s EXCEPT ![a] = s[b], ![b] = s[a]]

moveImage ==
    /\ ListShown
    /\ \E index \in 1..Len(images), direction \in {"up", "down"} :
        LET newIndex == IF direction = "up" THEN index - 1 ELSE index + 1
        IN  /\ newIndex >= 1 /\ newIndex <= Len(images)
            /\ images' = Swap(images, index, newIndex)
    /\ UNCHANGED <<panorama, processing, progress, opencvReady, statusLog,
                   showNameModal, alertMsg>>
    /\ UNCHANGED runVars
    /\ UNCHANGED tourVars

removeImage ==
    /\ ListShown
    /\ \E index \in 1..Len(images) :
        images' = [k \in 1..(Len(images) - 1) |->
                      IF k < index THEN images[k] ELSE images[k + 1]]
    /\ UNCHANGED <<panorama, processing, progress, opencvReady, statusLog,
                   showNameModal, alertMsg>>
    /\ UNCHANGED runVars
    /\ UNCHANGED tourVars

\* ------------------------------------------------------------- geometry
\* cv.perspectiveTransform of the pixel point (x, y), in half pixels
Transform(H, x, y) ==
    <<2 * H.sx * x + (H.kn * y) \div H.kd + H.bx, 2 * H.sy * y + H.by>>

\* pts1 through H: top-left, bottom-left, bottom-right, top-right
perspectiveTransform(H, w_src, h_src) ==
    << Transform(H, 0, 0), Transform(H, 0, h_src),
       Transform(H, w_src, h_src), Transform(H, w_src, 0) >>

Xs(corners) == {corners[k][1] : k \in DOMAIN corners}
Ys(corners) == {corners[k][2] : k \in DOMAIN corners}

\* the canvas geometry with the height taken from the lowest corner alone
CanvasGeometryLowestCorner(w_dst, h_dst, corners_src) ==
    LET corners_dst == << <<0, 0>>, <<0, 2 * h_dst>>,
                          <<2 * w_dst, 2 * h_dst>>, <<2 * w_dst, 0>> >>
        all_corners == corners_src \o corners_dst
        min_x == MinOf(Xs(all_corners))
        min_y == MinOf(Ys(all_corners))
        max_y == MaxOf(Ys(all_corners))
        t_x == -min_x
        t_y == -min_y
        side == IF corners_src[1][1] < 0 THEN "left" ELSE "right"
    IN  [t_x |-> t_x, t_y |-> t_y, side |-> side,
         width_pano |-> IF side = "left" THEN Ceil2(2 * w_dst + t_x)
                        ELSE Ceil2(corners_src[4][1]),
         height_pano |-> Ceil2(max_y),
         dst_x |-> IF side = "left" THEN Round2(t_x) ELSE 0,
         dst_y |-> Round2(t_y)]

\* lines 274-294 and 323-324: bounding box, translation, side, canvas size
\* and the offset of the fixed image
CanvasGeometry(w_dst, h_dst, corners_src) ==
    LET corners_dst == << <<0, 0>>, <<0, 2 * h_dst>>,
                          <<2 * w_dst, 2 * h_dst>>, <<2 * w_dst, 0>> >>
        all_corners == corners_src \o corners_dst
        min_x == MinOf(Xs(all_corners))
        min_y == MinOf(Ys(all_corners))
        max_y == MaxOf(Ys(all_corners))
        t_x == -min_x
        t_y == -min_y
        side == IF corners_src[1][1] < 0 THEN "left" ELSE "right"
    IN  [t_x |-> t_x, t_y |-> t_y, side |-> side,
         width_pano |-> IF side = "left" THEN Ceil2(2 * w_dst + t_x)
                        ELSE Ceil2(corners_src[4][1]),
         height_pano |-> Ceil2(max_y - min_y),
         dst_x |-> IF side = "left" THEN Round2(t_x) ELSE 0,
         dst_y |-> Round2(t_y)]

\* A raster as the crop stage sees it: its size and the canvas position of
\* its first pixel.
Raster(cols, rows) == [cols |-> cols, rows |-> rows, x0 |-> 0, y0 |-> 0]

\* the crop window with a sign slip: the top edge taken from min_y
CropWindowSignSlip(pano, h_dst, corners) ==
    LET min_x == Floor2(MinOf(Xs(corners)))
        min_y == Floor2(MinOf(Ys(corners)))
        t_y == -min_y
        left == corners[1][1] < 0
        n == Abs(corners[2][1] - corners[1][1])
        end_x == Min2(corners[3][1], corners[4][1])
        xs1 == IF left THEN Max2(0, Floor2(n)) ELSE 0
        xe1 == IF left THEN pano.cols ELSE Min2(pano.cols, Ceil2(end_x))
        xs2 == IF min_x < 0 THEN Max2(xs1, -min_x) ELSE xs1
        crop_x_start == Max2(0, xs2)
        crop_x_end == Min2(pano.cols, xe1)
        crop_y_start == Max2(0, min_y)
        crop_y_end == Min2(pano.rows, Min2(t_y + h_dst, pano.rows))
    IN  [x |-> crop_x_start, y |-> crop_y_start,
         width |-> crop_x_end - crop_x_start,
         height |-> crop_y_end - crop_y_start]

\* lines 122-150: the crop window of cropPanorama, in pixels of pano
CropWindow(pano, h_dst, corners) ==
    LET min_x == Floor2(MinOf(Xs(corners)))
        min_y == Floor2(MinOf(Ys(corners)))
        t_y == -min_y
        left == corners[1][1] < 0
        n == Abs(corners[2][1] - corners[1][1])
        end_x == Min2(corners[3][1], corners[4][1])
        xs1 == IF left THEN Max2(0, Floor2(n)) ELSE 0
        xe1 == IF left THEN pano.cols ELSE Min2(pano.cols, Ceil2(end_x))
        xs2 == IF min_x < 0 THEN Max2(xs1, -min_x) ELSE xs1
        crop_x_start == Max2(0, xs2)
        crop_x_end == Min2(pano.cols, xe1)
        crop_y_start == Max2(0, t_y)
        crop_y_end == Min2(pano.rows, Min2(t_y + h_dst, pano.rows))
    IN  [x |-> crop_x_start, y |-> crop_y_start,
         width |-> crop_x_end - crop_x_start,
         height |-> crop_y_end - crop_y_start]

\* line 152: the window is empty and cropPanorama hands back pano itself
CropReturnsPano(pano, h_dst, corners) ==
    LET w == CropWindow(pano, h_dst, corners)
    IN  w.width <= 0 \/ w.height <= 0

cropPanorama(pano, h_dst, corners) ==
    LET w == CropWindow(pano, h_dst, corners)
    IN  IF CropReturnsPano(pano, h_dst, corners) THEN pano
        ELSE [cols |-> w.width, rows |-> w.height,
              x0 |-> pano.x0 + w.x, y0 |-> pano.y0 + w.y]

\* ------------------------------------------------------------ the driver
TooFewMsg == "Please upload at least 2 images"
LoadingMsg == "OpenCV is still loading..."
FeaturesMsg == "Not enough features detected"
MatchesMsg == "Not enough good matches - check image overlap"
\* what an embind or OpenCV exception shows: it has no message
LibraryMsg == "Error: undefined"
DeletedMsg == "Cannot pass deleted object as a pointer of type Mat"

\* a Mat carrying an image: deletes counts the calls of its delete()
Buf(kind, cols, rows) ==
    [kind |-> kind, cols |-> cols, rows |-> rows, live |-> TRUE, deletes |-> 0]

Delete(bs, hs) ==
    [k \in DOMAIN bs |->
        IF k \in hs
        THEN [bs[k] EXCEPT !.live = FALSE, !.deletes = bs[k].deletes + 1]
        ELSE bs[k]]

\* a catch block that goes back to the failed pair instead of ending the run
CatchRetry(msg, log, lost) ==
    /\ progress' = Progress("Error", 0, 0)
    /\ statusLog' = addLog(log, Log("error", i))
    /\ alertMsg' = msg
    /\ processing' = FALSE
    /\ pc' = IF pair.imageNum > 0 THEN "timer" ELSE "idle"
    /\ temps' = {}
    /\ leaked' = leaked \cup {<<i, t>> : t \in lost}
    /\ UNCHANGED <<images, panorama, opencvReady, showNameModal>>

\* the catch block of stitchWithOpenCV (lines 543-549); log is the status
\* log at the throw and lost are the objects the unwound frames never delete
Catch(msg, log, lost) ==
    /\ progress' = Progress("Error", 0, 0)
    /\ statusLog' = addLog(log, Log("error", i))
    /\ alertMsg' = msg
    /\ processing' = FALSE
    /\ pc' = "idle"
    /\ temps' = {}
    /\ leaked' = leaked \cup {<<i, t>> : t \in lost}
    /\ UNCHANGED <<images, panorama, opencvReady, showNameModal>>

\* the call stitchTwoImages(panoramaResult, mats[k], k) up to its await
\* (lines 170-172), as the new pair locals
EnterPair(dst, src, k) ==
    [NoPair EXCEPT !.imageNum = k, !.dst_img = dst, !.src_img = src]

\* the record of one invocation: the two images it was handed, the matrix
\* it estimated and the raster it returned (0 until it returns)
Call(p) == [dst |-> p.dst_img, src |-> p.src_img, H |-> NoH, result |-> 0]

\* The click on "Create Panorama" (lines 469-491).  The button is rendered
\* with the list and is disabled while processing; the handler itself
\* decides the image count and the library flag.
stitchWithOpenCV ==
    /\ pc = "idle"
    /\ ~processing
    /\ panorama = ""
    /\ IF Len(images) < MinImages
       THEN /\ alertMsg' = TooFewMsg
            /\ UNCHANGED <<images, panorama, processing, progress, opencvReady,
                           statusLog, showNameModal>>
            /\ UNCHANGED runVars
       ELSE IF ~opencvReady
       THEN /\ alertMsg' = LoadingMsg
            /\ UNCHANGED <<images, panorama, processing, progress, opencvReady,
                           statusLog, showNameModal>>
            /\ UNCHANGED runVars
       ELSE /\ processing' = TRUE
            /\ panorama' = ""
            /\ statusLog' = addLog(<< >>, Log("started", 0))
            /\ progress' = Progress("Loading images...", 0, 0)
            /\ loading' = images
            /\ pc' = "loading"
            /\ bufs' = << >>
            /\ mats' = << >>
            /\ panoramaResult' = 0
            /\ i' = 0
            /\ calls' = << >>
            /\ pair' = NoPair
            /\ temps' = {}
            /\ leaked' = {}
            /\ alertMsg' = ""
            /\ UNCHANGED <<images, opencvReady, showNameModal>>
    /\ UNCHANGED tourVars

\* the driver seeded with the first image itself instead of a copy of it
loadImagesNoCopy ==
    /\ pc = "loading"
    /\ \E size \in [1..Len(loading) -> ImageSizes] :
        LET n == Len(loading)
            inputs == [k \in 1..n |-> Buf("mat", size[k][1], size[k][2])]
            lines == [k \in 1..n |-> Log("image", k)]
        IN  /\ bufs' = inputs
            /\ mats' = [k \in 1..n |-> k]
            /\ panoramaResult' = 1
            /\ i' = 1
            /\ progress' = Progress("Stitching image", 2, n)
            /\ statusLog' = addLog(addLog(statusLog, Log("loaded", n)) \o lines,
                                   Log("pair", 1))
            /\ calls' = <<Call(EnterPair(1, 2, 1))>>
            /\ pair' = EnterPair(1, 2, 1)
            /\ pc' = "timer"
    /\ loading' = << >>
    /\ UNCHANGED <<images, panorama, processing, opencvReady, showNameModal,
                   alertMsg, temps, leaked>>
    /\ UNCHANGED tourVars

\* Promise.all resolves: lines 492-517 and the entry of the first
\* stitchTwoImages up to its await
loadImagesResolved ==
    /\ pc = "loading"
    /\ \E size \in [1..Len(loading) -> ImageSizes] :
        LET n == Len(loading)
            inputs == [k \in 1..n |-> Buf("mat", size[k][1], size[k][2])]
            clone == Buf("clone", size[1][1], size[1][2])
            lines == [k \in 1..n |-> Log("image", k)]
        IN  /\ bufs' = Append(inputs, clone)
            /\ mats' = [k \in 1..n |-> k]
            /\ panoramaResult' = n + 1
            /\ i' = 1
            /\ progress' = Progress("Stitching image", 2, n)
            /\ statusLog' = addLog(addLog(statusLog, Log("loaded", n)) \o lines,
                                   Log("pair", 1))
            /\ calls' = <<Call(EnterPair(n + 1, 2, 1))>>
            /\ pair' = EnterPair(n + 1, 2, 1)
            /\ pc' = "timer"
    /\ loading' = << >>
    /\ UNCHANGED <<images, panorama, processing, opencvReady, showNameModal,
                   alertMsg, temps, leaked>>
    /\ UNCHANGED tourVars

\* an image fails to decode: Promise.all rejects with the error event
loadImagesRejected ==
    /\ pc = "loading"
    /\ Catch(LibraryMsg, statusLog, {})
    /\ loading' = << >>
    /\ UNCHANGED <<bufs, mats, panoramaResult, i, calls, pair>>
    /\ UNCHANGED tourVars

\* ------------------------------------------------------ stitchTwoImages
\* lines 174-193: grayscale, ORB, the keypoint check
detectFeatures ==
    /\ pc = "timer"
    /\ IF ~bufs[pair.dst_img].live
       THEN \* cv.cvtColor is handed a deleted Mat: embind throws
            /\ Catch(DeletedMsg, statusLog, {"gray_dst", "gray_src"})
            /\ UNCHANGED <<loading, bufs, mats, panoramaResult, i, calls, pair>>
       ELSE \E kd \in 0..MaxKp, ks \in 0..MaxKp :
            LET made == {"gray_dst", "gray_src", "orb", "kp_dst", "kp_src",
                         "desc_dst", "desc_src", "noArray1", "noArray2"}
                log == addLog(addLog(statusLog, Log("features", pair.imageNum)),
                              Log("keypoints", pair.imageNum))
            IN  /\ pair' = [pair EXCEPT !.kp_dst = kd, !.kp_src = ks]
                /\ IF kd < MinKeypoints \/ ks < MinKeypoints
                   THEN /\ Catch(FeaturesMsg, log, made)
                        /\ UNCHANGED <<loading, bufs, mats, panoramaResult, i, calls>>
                   ELSE /\ statusLog' = log
                        /\ temps' = made
                        /\ pc' = "match"
                        /\ UNCHANGED <<images, panorama, processing, progress,
                                       opencvReady, showNameModal, alertMsg,
                                       loading, bufs, mats, panoramaResult, i,
                                       calls, leaked>>
    /\ UNCHANGED tourVars

\* the ratio test letting the boundary pass
PassesRatioInclusive(match_pair) ==
    /\ Len(match_pair) >= KnnK
    /\ RatioDen * match_pair[1] <= RatioNum * match_pair[2]

\* line 203-208: Lowe's ratio test on one knnMatch result
PassesRatio(match_pair) ==
    /\ Len(match_pair) >= KnnK
    /\ RatioDen * match_pair[1] < RatioNum * match_pair[2]

\* lines 200-210: the query indices whose best match is kept, in order
RECURSIVE GoodMatches(_, _)
GoodMatches(matches, k) ==
    IF k > Len(matches) THEN << >>
    ELSE IF PassesRatio(matches[k])
         THEN <<k>> \o GoodMatches(matches, k + 1)
         ELSE GoodMatches(matches, k + 1)

\* lines 195-216: knnMatch, the ratio test, the match check
matchFeatures ==
    /\ pc = "match"
    /\ \E matches \in [1..pair.kp_src -> DistancePairs] :
        LET good == GoodMatches(matches, 1)
            log == addLog(addLog(statusLog, Log("matching", pair.imageNum)),
                          Log("good", pair.imageNum))
            made == temps \cup {"bf", "matches"}
        IN  /\ pair' = [pair EXCEPT !.matches = matches, !.good_matches = good]
            /\ IF Len(good) < MinGoodMatches
               THEN /\ Catch(MatchesMsg, log, made)
                    /\ UNCHANGED <<loading, bufs, mats, panoramaResult, i, calls>>
               ELSE /\ statusLog' = log
                    /\ temps' = made
                    /\ pc' = "homography"
                    /\ UNCHANGED <<images, panorama, processing, progress,
                                   opencvReady, showNameModal, alertMsg,
                                   loading, bufs, mats, panoramaResult, i,
                                   calls, leaked>>
    /\ UNCHANGED tourVars

\* lines 218-238: the matched points, one per kept match, in order
SrcPoints(good_matches) == [k \in 1..Len(good_matches) |-> good_matches[k]]

buildPoints ==
    /\ pc = "homography"
    /\ pair' = [pair EXCEPT !.src_pts = SrcPoints(pair.good_matches)]
    /\ temps' = temps \cup {"src_mat", "dst_mat"}
    /\ statusLog' = addLog(statusLog, Log("homography", pair.imageNum))
    /\ pc' = "ransac"
    /\ UNCHANGED <<images, panorama, processing, progress, opencvReady,
                   showNameModal, alertMsg, loading, bufs, mats,
                   panoramaResult, i, calls, leaked>>
    /\ UNCHANGED tourVars

\* the inlier counts the mask may show for n matched points
InlierCounts(n) == {3, 4} \cap 0..n

\* lines 241-248: cv.findHomography and the inlier count.  The keypoints,
\* the matches and the point lists are not read after line 248 and are
\* dropped from the locals here.
findHomography ==
    /\ pc = "ransac"
    /\ \E H \in Homographies(bufs[pair.dst_img].cols, bufs[pair.dst_img].rows,
                             bufs[pair.src_img].cols, bufs[pair.src_img].rows) :
       \E inlierCount \in (IF H.empty THEN {0} ELSE InlierCounts(Len(pair.src_pts))) :
        /\ pair' = [pair EXCEPT !.H = H, !.inlierCount = inlierCount,
                                !.kp_dst = 0, !.kp_src = 0, !.matches = << >>,
                                !.good_matches = << >>, !.src_pts = << >>]
        /\ calls' = [calls EXCEPT ![pair.imageNum].H = H]
    /\ temps' = temps \cup {"mask", "H"}
    /\ statusLog' = addLog(statusLog, Log("inliers", pair.imageNum))
    /\ pc' = "canvas"
    /\ UNCHANGED <<images, panorama, processing, progress, opencvReady,
                   showNameModal, alertMsg, loading, bufs, mats,
                   panoramaResult, i, leaked>>
    /\ UNCHANGED tourVars

\* lines 250-296: the transformed corners and the canvas geometry.
\* cv.perspectiveTransform rejects an empty matrix.
computeCanvas ==
    /\ pc = "canvas"
    /\ IF pair.H.empty
       THEN /\ Catch(LibraryMsg, statusLog, temps \cup {"pts1_mat", "pts1_transformed"})
            /\ UNCHANGED <<loading, bufs, mats, panoramaResult, i, calls, pair>>
       ELSE LET corners_src == perspectiveTransform(pair.H, bufs[pair.src_img].cols,
                                                    bufs[pair.src_img].rows)
                g == CanvasGeometry(bufs[pair.dst_img].cols, bufs[pair.dst_img].rows,
                                    corners_src)
            IN  /\ pair' = [pair EXCEPT !.corners_src = corners_src,
                                        !.t_x = g.t_x, !.t_y = g.t_y, !.side = g.side,
                                        !.width_pano = g.width_pano,
                                        !.height_pano = g.height_pano,
                                        !.dst_x = g.dst_x, !.dst_y = g.dst_y]
                /\ temps' = temps \cup {"pts1_mat", "pts1_transformed"}
                /\ statusLog' = addLog(statusLog, Log("canvas", pair.imageNum))
                /\ pc' = "warp"
                /\ UNCHANGED <<images, panorama, processing, progress, opencvReady,
                               showNameModal, alertMsg, loading, bufs, mats,
                               panoramaResult, i, calls, leaked>>
    /\ UNCHANGED tourVars

\* new cv.Mat(rows, cols, ...) rejects a negative size
Rejected(cols, rows) == cols < 0 \/ rows < 0

\* the filters of the blend step may throw on a raster without pixels
MayThrow(cols, rows) == cols <= 0 \/ rows <= 0

\* lines 298-343: the translated warp of the moving image and the canvas
\* holding the fixed image, both of the canvas size
warpAndPlace ==
    /\ pc = "warp"
    /\ \/ /\ Rejected(pair.width_pano, pair.height_pano)
          /\ Catch(LibraryMsg, statusLog, temps \cup {"Ht", "H_final", "gemmSrc3"})
          /\ UNCHANGED <<loading, bufs, mats, panoramaResult, i, calls, pair>>
       \/ /\ ~Rejected(pair.width_pano, pair.height_pano)
          /\ bufs' = bufs \o << Buf("src_warped", pair.width_pano, pair.height_pano),
                                Buf("dst_resized", pair.width_pano, pair.height_pano) >>
          /\ pair' = [pair EXCEPT !.src_warped = Len(bufs) + 1,
                                  !.dst_resized = Len(bufs) + 2]
          /\ temps' = temps \cup {"Ht", "H_final", "gemmSrc3"}
          /\ statusLog' = addLog(statusLog, Log("blending", pair.imageNum))
          /\ pc' = "blend"
          /\ UNCHANGED <<images, panorama, processing, progress, opencvReady,
                         showNameModal, alertMsg, loading, mats,
                         panoramaResult, i, calls, leaked>>
    /\ UNCHANGED tourVars

\* lines 347-441: the blended canvas; the masks and distance fields are
\* created and deleted within the step
blend ==
    /\ pc = "blend"
    /\ \/ /\ MayThrow(pair.width_pano, pair.height_pano)
          /\ Catch(LibraryMsg, statusLog,
                   temps \cup {"mask_dst", "mask_src", "overlap", "kernel",
                               "dist_dst", "dist_src"})
          /\ UNCHANGED <<loading, bufs, mats, panoramaResult, i, calls, pair>>
       \/ /\ bufs' = Append(bufs, Buf("pano", pair.width_pano, pair.height_pano))
          /\ pair' = [pair EXCEPT !.pano = Len(bufs) + 1]
          /\ statusLog' = addLog(statusLog, Log("cropping", pair.imageNum))
          /\ pc' = "crop"
          /\ UNCHANGED <<images, panorama, processing, progress, opencvReady,
                         showNameModal, alertMsg, loading, mats,
                         panoramaResult, i, calls, temps, leaked>>
    /\ UNCHANGED tourVars

\* the locals stitchTwoImages deletes at lines 446-460
Deleted446 == {"gray_dst", "gray_src", "kp_dst", "kp_src", "desc_dst", "desc_src",
               "matches", "src_mat", "dst_mat", "mask", "H", "pts1_mat",
               "pts1_transformed", "Ht", "H_final"}

\* lines 444-466: cropPanorama, the deletes and the return
cropAndReturn ==
    /\ pc = "crop"
    /\ LET pano == Raster(bufs[pair.pano].cols, bufs[pair.pano].rows)
           h_dst == bufs[pair.dst_img].rows
           same == CropReturnsPano(pano, h_dst, pair.corners_src)
           result == cropPanorama(pano, h_dst, pair.corners_src)
           withCrop == IF same THEN bufs
                       ELSE Append(bufs, Buf("cropped", result.cols, result.rows))
           cropped_pano == IF same THEN pair.pano ELSE Len(bufs) + 1
       IN  /\ bufs' = Delete(withCrop, {pair.src_warped, pair.dst_resized, pair.pano})
           /\ pair' = [pair EXCEPT !.cropped_pano = cropped_pano]
           /\ calls' = [calls EXCEPT ![pair.imageNum].result = cropped_pano]
    /\ temps' = {}
    /\ leaked' = leaked \cup {<<pair.imageNum, t>> : t \in temps \ Deleted446}
    /\ statusLog' = addLog(statusLog, Log("stitched", pair.imageNum))
    /\ pc' = "returned"
    /\ UNCHANGED <<images, panorama, processing, progress, opencvReady,
                   showNameModal, alertMsg, loading, mats, panoramaResult, i>>
    /\ UNCHANGED tourVars

\* the driver with the result of the pair not taken: the next pair is
\* stitched onto the previous accumulator
driverNextStale ==
    /\ pc = "returned"
    /\ panoramaResult' = panoramaResult
    /\ IF i + 1 < Len(mats)
       THEN /\ i' = i + 1
            /\ progress' = Progress("Stitching image", i + 2, Len(mats))
            /\ calls' = Append(calls, Call(EnterPair(panoramaResult, mats[i + 2], i + 1)))
            /\ pair' = EnterPair(panoramaResult, mats[i + 2], i + 1)
            /\ statusLog' = addLog(statusLog, Log("pair", i + 1))
            /\ pc' = "timer"
            /\ UNCHANGED <<images, panorama, processing, opencvReady, showNameModal,
                           alertMsg, loading, bufs, mats, temps, leaked>>
       ELSE IF ~bufs[panoramaResult].live
       THEN /\ Catch(DeletedMsg, statusLog, {})
            /\ UNCHANGED <<loading, bufs, mats, i, calls, pair>>
       ELSE /\ progress' = Progress("Generating high-quality output...", 0, 0)
            /\ bufs' = Delete(bufs, {mats[k] : k \in DOMAIN mats} \cup {panoramaResult})
            /\ pc' = "blob"
            /\ UNCHANGED <<images, panorama, processing, opencvReady, statusLog,
                           showNameModal, alertMsg, loading, mats, i, calls, pair,
                           temps, leaked>>
    /\ UNCHANGED tourVars

\* line 517 takes the result; then either the next iteration up to the
\* await of its stitchTwoImages, or lines 520-542
driverNext ==
    /\ pc = "returned"
    /\ panoramaResult' = pair.cropped_pano
    /\ IF i + 1 < Len(mats)
       THEN /\ i' = i + 1
            /\ progress' = Progress("Stitching image", i + 2, Len(mats))
            /\ calls' = Append(calls, Call(EnterPair(pair.cropped_pano, mats[i + 2], i + 1)))
            /\ pair' = EnterPair(pair.cropped_pano, mats[i + 2], i + 1)
            /\ statusLog' = addLog(statusLog, Log("pair", i + 1))
            /\ pc' = "timer"
            /\ UNCHANGED <<images, panorama, processing, opencvReady, showNameModal,
                           alertMsg, loading, bufs, mats, temps, leaked>>
       ELSE IF ~bufs[pair.cropped_pano].live
       THEN \* cv.imshow reads a deleted Mat: embind throws
            /\ Catch(DeletedMsg, statusLog, {})
            /\ UNCHANGED <<loading, bufs, mats, i, calls, pair>>
       ELSE /\ progress' = Progress("Generating high-quality output...", 0, 0)
            /\ bufs' = Delete(bufs, {mats[k] : k \in DOMAIN mats} \cup {pair.cropped_pano})
            /\ pc' = "blob"
            /\ UNCHANGED <<images, panorama, processing, opencvReady, statusLog,
                           showNameModal, alertMsg, loading, mats, i, calls, pair,
                           temps, leaked>>
    /\ UNCHANGED tourVars

\* the callback of canvas.toBlob (lines 525-536)
toBlobCallback ==
    /\ pc = "blob"
    /\ pc' = "idle"
    /\ \/ /\ panorama' = "blob:panorama"
          /\ statusLog' = addLog(statusLog, Log("complete", 0))
          /\ processing' = FALSE
          /\ showNameModal' = TRUE
       \/ UNCHANGED <<panorama, statusLog, processing, showNameModal>>
    /\ UNCHANGED <<images, progress, opencvReady, alertMsg, loading, bufs, mats,
                   panoramaResult, i, calls, pair, temps, leaked>>
    /\ UNCHANGED tourVars

Next ==
    \/ checkOpenCV
    \/ handleImageUpload
    \/ moveImage
    \/ removeImage
    \/ stitchWithOpenCV
    \/ loadImagesResolved
    \/ loadImagesRejected
    \/ detectFeatures
    \/ matchFeatures
    \/ buildPoints
    \/ findHomography
    \/ computeCanvas
    \/ warpAndPlace
    \/ blend
    \/ cropAndReturn
    \/ driverNext
    \/ toBlobCallback

Spec == Init /\ [][Next]_vars

\* The steps the event loop takes on its own: a settled promise, an elapsed
\* timer and a pending callback are always run; the clicks of the user are
\* not.
RunStep ==
    \/ loadImagesResolved
    \/ loadImagesRejected
    \/ detectFeatures
    \/ matchFeatures
    \/ buildPoints
    \/ findHomography
    \/ computeCanvas
    \/ warpAndPlace
    \/ blend
    \/ cropAndReturn
    \/ driverNext
    \/ toBlobCallback

LiveSpec == Init /\ [][Next]_vars /\ WF_vars(RunStep)


\* ------------------------------------------------- the blend of one pixel
\* The distance fields are 32-bit floats: dyadic values, here multiples of
\* 1/DistUnit.
DistUnit == 128

\* RGB pixels of the canvas holding the fixed image and RGBA pixels of the
\* warped moving image
DstPixels == {<<0, 0, 0>>, <<4, 4, 2>>, <<4, 4, 3>>, <<200, 100, 50>>, <<255, 255, 255>>}
SrcPixels == {<<0, 0, 0, 0>>, <<90, 30, 7, 10>>, <<90, 30, 7, 11>>,
              <<1, 2, 250, 255>>, <<255, 255, 255, 255>>}

\* The locals of the loops at one pixel (y, x): the two source pixels,
\* whether the eight neighbours of the pixel are set in mask_dst and in
\* mask_src, the blurred distances, and the output pixel (black at first).
PixelInputs ==
    [dst_pix : DstPixels, src_pix : SrcPixels,
     nbr_dst : BOOLEAN, nbr_src : BOOLEAN,
     d_dst : 0..MaxDist, d_src : 0..MaxDist,
     pano_pix : {<<0, 0, 0>>}]

\* lines 372-377: the masks before erosion
MaskDst(p) == p.dst_pix[1] + p.dst_pix[2] + p.dst_pix[3] > MaskThreshold
MaskSrc(p) == p.src_pix[4] > AlphaThreshold

\* lines 381-387 and 403-405: a pixel survives the 3x3 erosion when it and
\* its eight neighbours are set; overlap is the AND of the two masks, eroded
HasDst(p) == MaskDst(p) /\ p.nbr_dst
HasSrc(p) == MaskSrc(p) /\ p.nbr_src
InOverlap(p) == (MaskDst(p) /\ MaskSrc(p)) /\ (p.nbr_dst /\ p.nbr_src)

\* Math.round(a / b) for b > 0
RoundDiv(a, b) == (2 * a + b) \div (2 * b)

\* the blend with the two weights exchanged
BlendPixelSwapped(p) ==
    LET total == p.d_dst + p.d_src
    IN  IF InOverlap(p)
        THEN IF TotalDen * total > TotalNum * DistUnit
             THEN [c \in 1..3 |->
                      RoundDiv(p.dst_pix[c] * p.d_src + p.src_pix[c] * p.d_dst, total)]
             ELSE [c \in 1..3 |-> RoundDiv(p.dst_pix[c] + p.src_pix[c], 2)]
        ELSE IF HasDst(p)
        THEN [c \in 1..3 |-> p.dst_pix[c]]
        ELSE IF HasSrc(p) /\ p.src_pix[4] > AlphaThreshold
        THEN [c \in 1..3 |-> p.src_pix[c]]
        ELSE p.pano_pix

\* lines 407-432: the output pixel
BlendPixel(p) ==
    LET total == p.d_dst + p.d_src
    IN  IF InOverlap(p)
        THEN IF TotalDen * total > TotalNum * DistUnit
             THEN [c \in 1..3 |->
                      RoundDiv(p.dst_pix[c] * p.d_dst + p.src_pix[c] * p.d_src, total)]
             ELSE [c \in 1..3 |-> RoundDiv(p.dst_pix[c] + p.src_pix[c], 2)]
        ELSE IF HasDst(p)
        THEN [c \in 1..3 |-> p.dst_pix[c]]
        ELSE IF HasSrc(p) /\ p.src_pix[4] > AlphaThreshold
        THEN [c \in 1..3 |-> p.src_pix[c]]
        ELSE p.pano_pix

\* the loops stopped at one pixel, before the body of the second loop
InitBlend ==
    /\ InitTour
    /\ images = << >>
    /\ panorama = ""
    /\ processing = TRUE
    /\ progress = Progress("Stitching image", 2, 2)
    /\ opencvReady = TRUE
    /\ statusLog = << >>
    /\ showNameModal = FALSE
    /\ alertMsg = ""
    /\ pc = "pixel"
    /\ loading = << >>
    /\ bufs = << >>
    /\ mats = << >>
    /\ panoramaResult = 0
    /\ i = 1
    /\ calls = << >>
    /\ pair \in PixelInputs
    /\ temps = {}
    /\ leaked = {}

\* one pass of the body of the loop at lines 397-434
blendPixel ==
    /\ pc = "pixel"
    /\ pair' = [pair EXCEPT !.pano_pix = BlendPixel(pair)]
    /\ pc' = "pixel_done"
    /\ UNCHANGED <<images, panorama, processing, progress, opencvReady,
                   statusLog, showNameModal, alertMsg, loading, bufs, mats,
                   panoramaResult, i, calls, temps, leaked>>
    /\ UNCHANGED tourVars

NextBlend == blendPixel

SpecBlend == InitBlend /\ [][NextBlend]_vars


\* ------------------------------------------------- the ratio loop alone
SeqsUpTo(S, n) == UNION {[1..k -> S] : k \in 0..n}

\* what knnMatch may hold for one query: up to KnnK distances, best first
MatchPairs == {m \in SeqsUpTo(0..MaxHamming, KnnK) :
                  \A a, b \in DOMAIN m : a < b => m[a] <= m[b]}

\* stitchTwoImages stopped before the loop at line 201
InitRatio ==
    /\ InitTour
    /\ images = << >>
    /\ panorama = ""
    /\ processing = TRUE
    /\ progress = Progress("Stitching image", 2, 2)
    /\ opencvReady = TRUE
    /\ statusLog = << >>
    /\ showNameModal = FALSE
    /\ alertMsg = ""
    /\ pc = "ratio"
    /\ loading = << >>
    /\ bufs = << >>
    /\ mats = << >>
    /\ panoramaResult = 0
    /\ i = 1
    /\ calls = << >>
    /\ \E matches \in SeqsUpTo(MatchPairs, MaxQueries) :
        pair = [EnterPair(0, 0, 1) EXCEPT !.matches = matches]
    /\ temps = {}
    /\ leaked = {}

\* the loop at lines 200-210
ratioLoop ==
    /\ pc = "ratio"
    /\ pair' = [pair EXCEPT !.good_matches = GoodMatches(pair.matches, 1)]
    /\ pc' = "ratio_done"
    /\ UNCHANGED <<images, panorama, processing, progress, opencvReady,
                   statusLog, showNameModal, alertMsg, loading, bufs, mats,
                   panoramaResult, i, calls, temps, leaked>>
    /\ UNCHANGED tourVars

NextRatio == ratioLoop

SpecRatio == InitRatio /\ [][NextRatio]_vars

\* ------------------------------------------------------- the tour editor
\* The tree of image nodes is a nested record, as ImageNodeData is.  The
\* position of a hotspot on the sphere is not kept.  ImageTree's own
\* context menu (lines 27-31, 51-68, 321-347) only raises alerts and is not
\* kept either.  Every control the component renders can be clicked:
\* which dialog covers which is decided by the style sheets.  The handlers
\* are explored in two parts that share the tree: SpecAdd has every way of
\* adding a node, SpecTour has the viewer on a tree built from uploads.

\* the files the picker offers, as the data URLs FileReader makes of them
FileUrls == {"data:1"}
\* what the panorama creator hands to onSave: an object URL and a name
CreatedPanoramas == {[name |-> <<"p">>, imageUrl |-> "blob:panorama"]}
\* what the user types into the label field
LabelInputs == {<<" ", "a", " ">>}
Untitled == <<"Untitled">>
NewHotspotLabel == <<"New Hotspot">>

\* String.prototype.trim on a sequence of characters
RECURSIVE TrimStart(_)
TrimStart(s) ==
    IF s # << >> /\ Head(s) = " " THEN TrimStart(Tail(s)) ELSE s

RECURSIVE TrimEnd(_)
TrimEnd(s) ==
    IF s # << >> /\ s[Len(s)] = " " THEN TrimEnd(SubSeq(s, 1, Len(s) - 1)) ELSE s

Trim(s) == TrimEnd(TrimStart(s))

\* the nodes of a tree, the node itself included
RECURSIVE NodeSet(_)
NodeSet(n) ==
    IF n = Null THEN {}
    ELSE {n} \cup UNION {NodeSet(n.children[k]) : k \in DOMAIN n.children}

NodeIds(n) == {m.id : m \in NodeSet(n)}
HotspotIds(n) ==
    UNION {{m.hotspots[k].id : k \in DOMAIN m.hotspots} : m \in NodeSet(n)}
HotspotCount(n) == Cardinality(HotspotIds(n))

\* generateId: an id no object of the same kind has yet.  Math.random gives
\* nine base-36 digits; two equal draws are not modelled.
generateId(used) == CHOOSE n \in 1..(Cardinality(used) + 1) : n \notin used

RECURSIVE addChildToNode(_, _, _)
addChildToNode(node, parentId, newChild) ==
    IF node.id = parentId
    THEN [node EXCEPT !.children = Append(@, newChild)]
    ELSE [node EXCEPT !.children =
            [k \in DOMAIN @ |-> addChildToNode(@[k], parentId, newChild)]]

RECURSIVE addHotspotToNode(_, _, _)
addHotspotToNode(node, targetNodeId, hotspot) ==
    IF node.id = targetNodeId
    THEN [node EXCEPT !.hotspots = Append(@, hotspot)]
    ELSE [node EXCEPT !.children =
            [k \in DOMAIN @ |-> addHotspotToNode(@[k], targetNodeId, hotspot)]]

\* the first node with this id in document order, Null for null
RECURSIVE findNode(_, _)
findNode(n, id) ==
    IF n.id = id THEN n
    ELSE LET found == [k \in DOMAIN n.children |-> findNode(n.children[k], id)]
             hits == {k \in DOMAIN found : found[k] # Null}
         IN IF hits = {} THEN Null ELSE found[MinOf(hits)]

RECURSIVE findParent(_, _, _)
findParent(node, targetId, parent) ==
    IF node.id = targetId THEN parent
    ELSE LET found == [k \in DOMAIN node.children |->
                          findParent(node.children[k], targetId, node)]
             hits == {k \in DOMAIN found : found[k] # Null}
         IN IF hits = {} THEN Null ELSE found[MinOf(hits)]

\* slip: the menu offers every node of the tree
linkableNodesAnyNode(root, currentNode) == NodeSet(root)

\* the nodes the viewer's menu offers: the parent and the children
linkableNodes(root, currentNode) ==
    LET parentNode == findParent(root, currentNode.id, Null)
    IN (IF parentNode # Null THEN {parentNode} ELSE {})
       \cup {currentNode.children[k] : k \in DOMAIN currentNode.children}

\* the viewer is mounted
ViewerShown == viewingImage # Null /\ rootNode # Null

handleInitialUpload ==
    /\ rootNode = Null
    /\ showImageSelector' = TRUE
    /\ UNCHANGED <<rootNode, pendingParentId, pendingImageUrl, showLabelModal,
                   labelInput, viewingImage, isTourMode, showPanoramaCreator,
                   savedPanoramas, reading, contextMenu>>
    /\ UNCHANGED creatorVars

handleAddChild ==
    /\ rootNode # Null
    /\ \E parentId \in NodeIds(rootNode) :
        /\ pendingParentId' = parentId
        /\ showImageSelector' = TRUE
    /\ UNCHANGED <<rootNode, pendingImageUrl, showLabelModal, labelInput,
                   viewingImage, isTourMode, showPanoramaCreator,
                   savedPanoramas, reading, contextMenu>>
    /\ UNCHANGED creatorVars

\* the close button of the image selector
closeSelector ==
    /\ showImageSelector
    /\ showImageSelector' = FALSE
    /\ pendingParentId' = 0
    /\ UNCHANGED <<rootNode, pendingImageUrl, showLabelModal, labelInput,
                   viewingImage, isTourMode, showPanoramaCreator,
                   savedPanoramas, reading, contextMenu>>
    /\ UNCHANGED creatorVars

handleSelectPanorama ==
    /\ showImageSelector
    /\ \E k \in DOMAIN savedPanoramas :
        /\ pendingImageUrl' = savedPanoramas[k].imageUrl
        /\ labelInput' = savedPanoramas[k].name
    /\ showLabelModal' = TRUE
    /\ showImageSelector' = FALSE
    /\ UNCHANGED <<rootNode, pendingParentId, viewingImage, isTourMode,
                   showPanoramaCreator, savedPanoramas, reading, contextMenu>>
    /\ UNCHANGED creatorVars

\* the change event of the file input: a FileReader starts on the file
handleFileSelect(file) ==
    /\ Len(reading) < MaxReads
    /\ reading' = Append(reading, file)

\* the selector closes and the file dialog opens; the dialog ends with a
\* file, which handleFileSelect takes, or without one
handleUploadFromComputer ==
    /\ showImageSelector
    /\ showImageSelector' = FALSE
    /\ \/ \E file \in FileUrls : handleFileSelect(file)
       \/ UNCHANGED reading
    /\ UNCHANGED <<rootNode, pendingParentId, pendingImageUrl, showLabelModal,
                   labelInput, viewingImage, isTourMode, showPanoramaCreator,
                   savedPanoramas, contextMenu>>
    /\ UNCHANGED creatorVars

\* reader.onload of one of the readers
readerOnload ==
    /\ \E k \in DOMAIN reading :
        /\ pendingImageUrl' = reading[k]
        /\ reading' = SubSeq(reading, 1, k - 1) \o SubSeq(reading, k + 1, Len(reading))
    /\ showLabelModal' = TRUE
    /\ labelInput' = << >>
    /\ UNCHANGED <<rootNode, pendingParentId, viewingImage, isTourMode,
                   showPanoramaCreator, savedPanoramas, showImageSelector,
                   contextMenu>>
    /\ UNCHANGED creatorVars

\* onChange of the label field
setLabelInput ==
    /\ showLabelModal
    /\ \E text \in LabelInputs : labelInput' = text
    /\ UNCHANGED <<rootNode, pendingParentId, pendingImageUrl, showLabelModal,
                   viewingImage, isTourMode, showPanoramaCreator,
                   savedPanoramas, showImageSelector, reading, contextMenu>>
    /\ UNCHANGED creatorVars

\* the node handleLabelSubmit makes
NewNode(root, url, text) ==
    [id |-> generateId(NodeIds(root)), imageUrl |-> url,
     label |-> IF Trim(text) # << >> THEN Trim(text) ELSE Untitled,
     children |-> << >>, hotspots |-> << >>]

\* the Add Image button and the Enter key of the label dialog
handleLabelSubmit ==
    /\ showLabelModal
    /\ rootNode = Null \/ pendingParentId = 0
          \/ Cardinality(NodeIds(rootNode)) < MaxNodes
    /\ IF pendingImageUrl = ""
       THEN UNCHANGED <<rootNode, pendingParentId, pendingImageUrl,
                        showLabelModal, labelInput>>
       ELSE /\ IF rootNode = Null
               THEN /\ rootNode' = NewNode(rootNode, pendingImageUrl, labelInput)
                    /\ UNCHANGED pendingParentId
               ELSE IF pendingParentId # 0
               THEN /\ rootNode' = addChildToNode(rootNode, pendingParentId,
                                      NewNode(rootNode, pendingImageUrl, labelInput))
                    /\ pendingParentId' = 0
               ELSE UNCHANGED <<rootNode, pendingParentId>>
            /\ showLabelModal' = FALSE
            /\ pendingImageUrl' = ""
            /\ labelInput' = << >>
    /\ UNCHANGED <<viewingImage, isTourMode, showPanoramaCreator,
                   savedPanoramas, showImageSelector, reading, contextMenu>>
    /\ UNCHANGED creatorVars

\* the Cancel button and the Escape key of the label dialog
handleCancelLabel ==
    /\ showLabelModal
    /\ showLabelModal' = FALSE
    /\ pendingImageUrl' = ""
    /\ labelInput' = << >>
    /\ pendingParentId' = 0
    /\ UNCHANGED <<rootNode, viewingImage, isTourMode, showPanoramaCreator,
                   savedPanoramas, showImageSelector, reading, contextMenu>>
    /\ UNCHANGED creatorVars

\* the Create Panorama button of the page
openPanoramaCreator ==
    /\ ~showPanoramaCreator
    /\ showPanoramaCreator' = TRUE
    /\ UNCHANGED <<rootNode, pendingParentId, pendingImageUrl, showLabelModal,
                   labelInput, viewingImage, isTourMode, savedPanoramas,
                   showImageSelector, reading, contextMenu>>
    /\ UNCHANGED creatorVars

\* the Create Panorama button of the image selector
createPanoramaInSelector ==
    /\ showImageSelector
    /\ showImageSelector' = FALSE
    /\ showPanoramaCreator' = TRUE
    /\ UNCHANGED <<rootNode, pendingParentId, pendingImageUrl, showLabelModal,
                   labelInput, viewingImage, isTourMode, savedPanoramas,
                   reading, contextMenu>>
    /\ UNCHANGED creatorVars

\* onClose of the panorama creator
closePanoramaCreator ==
    /\ showPanoramaCreator
    /\ showPanoramaCreator' = FALSE
    /\ UNCHANGED <<rootNode, pendingParentId, pendingImageUrl, showLabelModal,
                   labelInput, viewingImage, isTourMode, savedPanoramas,
                   showImageSelector, reading, contextMenu>>
    /\ UNCHANGED creatorVars

\* onSave of the panorama creator, which then calls onClose
handleSavePanorama ==
    /\ showPanoramaCreator
    /\ Len(savedPanoramas) < MaxSaved
    /\ \E created \in CreatedPanoramas :
        savedPanoramas' = Append(savedPanoramas,
            [id |-> generateId({savedPanoramas[k].id : k \in DOMAIN savedPanoramas}),
             name |-> created.name, imageUrl |-> created.imageUrl])
    /\ showPanoramaCreator' = FALSE
    /\ UNCHANGED <<rootNode, pendingParentId, pendingImageUrl, showLabelModal,
                   labelInput, viewingImage, isTourMode, showImageSelector,
                   reading, contextMenu>>
    /\ UNCHANGED creatorVars

\* a click on the image of a node of the rendered tree
handleImageClick ==
    /\ rootNode # Null
    /\ \E node \in NodeSet(rootNode) : viewingImage' = node
    /\ UNCHANGED <<rootNode, pendingParentId, pendingImageUrl, showLabelModal,
                   labelInput, isTourMode, showPanoramaCreator, savedPanoramas,
                   showImageSelector, reading, contextMenu>>
    /\ UNCHANGED creatorVars

\* the Tour button, rendered while there is a root
handleTourStart ==
    /\ rootNode # Null
    /\ isTourMode' = TRUE
    /\ viewingImage' = rootNode
    /\ UNCHANGED <<rootNode, pendingParentId, pendingImageUrl, showLabelModal,
                   labelInput, showPanoramaCreator, savedPanoramas,
                   showImageSelector, reading, contextMenu>>
    /\ UNCHANGED creatorVars

\* handleNavigate: the node viewed after navigating to targetNodeId
Navigate(root, viewing, targetNodeId) ==
    IF root # Null /\ findNode(root, targetNodeId) # Null
    THEN findNode(root, targetNodeId)
    ELSE viewing

\* a click in the viewer that hits a hotspot
handleLeftClick ==
    /\ ViewerShown
    /\ \E k \in DOMAIN viewingImage.hotspots :
        LET hotspot == viewingImage.hotspots[k]
        IN IF hotspot.type = "link" /\ hotspot.targetNodeId # 0
           THEN viewingImage' = Navigate(rootNode, viewingImage, hotspot.targetNodeId)
           ELSE UNCHANGED viewingImage
    /\ UNCHANGED <<rootNode, pendingParentId, pendingImageUrl, showLabelModal,
                   labelInput, isTourMode, showPanoramaCreator, savedPanoramas,
                   showImageSelector, reading, contextMenu>>
    /\ UNCHANGED creatorVars

\* slip: the viewer closes and tour mode stays
handleViewerCloseKeepsTour ==
    /\ ViewerShown
    /\ viewingImage' = Null
    /\ contextMenu' = FALSE
    /\ UNCHANGED <<rootNode, pendingParentId, pendingImageUrl, showLabelModal,
                   labelInput, isTourMode, showPanoramaCreator, savedPanoramas,
                   showImageSelector, reading>>
    /\ UNCHANGED creatorVars

\* the close button of the viewer; the viewer unmounts and its menu with it
handleViewerClose ==
    /\ ViewerShown
    /\ viewingImage' = Null
    /\ isTourMode' = FALSE
    /\ contextMenu' = FALSE
    /\ UNCHANGED <<rootNode, pendingParentId, pendingImageUrl, showLabelModal,
                   labelInput, showPanoramaCreator, savedPanoramas,
                   showImageSelector, reading>>
    /\ UNCHANGED creatorVars

\* a right click in the viewer: the ray always meets the sphere
handleRightClick ==
    /\ ViewerShown
    /\ contextMenu' = IF isTourMode THEN contextMenu ELSE TRUE
    /\ UNCHANGED <<rootNode, pendingParentId, pendingImageUrl, showLabelModal,
                   labelInput, viewingImage, isTourMode, showPanoramaCreator,
                   savedPanoramas, showImageSelector, reading>>
    /\ UNCHANGED creatorVars

\* a click outside the viewer's menu
closeContextMenu ==
    /\ contextMenu
    /\ contextMenu' = FALSE
    /\ UNCHANGED <<rootNode, pendingParentId, pendingImageUrl, showLabelModal,
                   labelInput, viewingImage, isTourMode, showPanoramaCreator,
                   savedPanoramas, showImageSelector, reading>>
    /\ UNCHANGED creatorVars

\* type: targetNodeId ? "link" : "info"
HotspotType(targetNodeId) == IF targetNodeId # 0 THEN "link" ELSE "info"

\* ImageTree's handleSaveHotspot; 0 is no targetNodeId
handleSaveHotspot(label, targetNodeId) ==
    IF viewingImage = Null
    THEN UNCHANGED <<rootNode, viewingImage>>
    ELSE LET newHotspot == [id |-> generateId(HotspotIds(rootNode)),
                            type |-> HotspotType(targetNodeId),
                            label |-> label,
                            targetNodeId |-> targetNodeId]
             updatedRoot == addHotspotToNode(rootNode, viewingImage.id, newHotspot)
             updatedViewingNode == findNode(updatedRoot, viewingImage.id)
         IN /\ rootNode' = updatedRoot
            /\ viewingImage' = IF updatedViewingNode # Null
                               THEN updatedViewingNode ELSE viewingImage

\* the Add hotspot item of the viewer's menu
handleAddHotspot ==
    /\ ViewerShown
    /\ contextMenu
    /\ HotspotCount(rootNode) < MaxHotspots
    /\ handleSaveHotspot(NewHotspotLabel, 0)
    /\ contextMenu' = FALSE
    /\ UNCHANGED <<pendingParentId, pendingImageUrl, showLabelModal,
                   labelInput, isTourMode, showPanoramaCreator, savedPanoramas,
                   showImageSelector, reading>>
    /\ UNCHANGED creatorVars

\* a Link item of the viewer's menu
handleLinkImage ==
    /\ ViewerShown
    /\ contextMenu
    /\ HotspotCount(rootNode) < MaxHotspots
    /\ \E targetNode \in linkableNodes(rootNode, viewingImage) :
        handleSaveHotspot(targetNode.label, targetNode.id)
    /\ contextMenu' = FALSE
    /\ UNCHANGED <<pendingParentId, pendingImageUrl, showLabelModal,
                   labelInput, isTourMode, showPanoramaCreator, savedPanoramas,
                   showImageSelector, reading>>
    /\ UNCHANGED creatorVars

\* adding nodes: the dialogs, the file reader and the saved panoramas
NextAdd ==
    \/ handleInitialUpload
    \/ handleAddChild
    \/ closeSelector
    \/ handleSelectPanorama
    \/ handleUploadFromComputer
    \/ readerOnload
    \/ setLabelInput
    \/ handleLabelSubmit
    \/ handleCancelLabel
    \/ openPanoramaCreator
    \/ createPanoramaInSelector
    \/ closePanoramaCreator
    \/ handleSavePanorama

SpecAdd == Init /\ [][NextAdd]_vars

\* the tree, built from uploaded files, with the viewer on it
NextTour ==
    \/ handleInitialUpload
    \/ handleAddChild
    \/ closeSelector
    \/ handleUploadFromComputer
    \/ readerOnload
    \/ setLabelInput
    \/ handleLabelSubmit
    \/ handleCancelLabel
    \/ handleImageClick
    \/ handleTourStart
    \/ handleLeftClick
    \/ handleViewerClose
    \/ handleRightClick
    \/ closeContextMenu
    \/ handleAddHotspot
    \/ handleLinkImage

SpecTour == Init /\ [][NextTour]_vars

\* ================================================================ claims

\* C1: a click with fewer than 2 images ends in the too-few-images alert and
\* changes nothing else: no load is started, no stitch runs, and processing,
\* panorama and statusLog keep their values; a run in progress always has at
\* least 2 inputs.
C1_TooFewImages ==
    /\ [][(stitchWithOpenCV /\ Len(images) < 2) =>
            /\ alertMsg' = TooFewMsg
            /\ UNCHANGED <<processing, panorama, statusLog, progress>>
            /\ UNCHANGED runVars]_vars
    /\ [](pc # "idle" => Len(loading) >= 2 \/ Len(mats) >= 2)

C1_Witness ==
    /\ alertMsg = TooFewMsg
    /\ Len(images) = 1
    /\ pc = "idle"
    /\ ~processing

\* the running or last stitchTwoImages threw
PairFailed ==
    /\ progress.msg = "Error"
    /\ pair.imageNum > 0
    /\ calls[pair.imageNum].result = 0

\* C2: once a pairwise stitch has failed the run is over: the error is logged
\* and alerted, the failed pair is the last one invoked, every pair was
\* invoked once, no panorama is published, and nothing of the run moves
\* until a new run is started.
C2_FailureAborts ==
    /\ [](PairFailed =>
            /\ pc = "idle"
            /\ ~processing
            /\ panorama = ""
            /\ alertMsg # ""
            /\ \E k \in DOMAIN statusLog : statusLog[k] = Log("error", pair.imageNum)
            /\ Len(calls) = pair.imageNum
            /\ \A k \in DOMAIN calls : calls[k].src = mats[k + 1]
            /\ \A k \in 1..(Len(calls) - 1) : calls[k].result # 0)
    /\ [][(PairFailed /\ PairFailed') => UNCHANGED <<calls, panorama, bufs, pair, pc>>]_vars

C2_Witness ==
    /\ PairFailed
    /\ pair.imageNum = 2
    /\ calls[1].result # 0
    /\ bufs[calls[1].result].live

\* the stitch has gone on to compositing: the canvas is computed and the
\* warp, the blend or the crop is next or done
Compositing == pc \in {"warp", "blend", "crop", "returned"}

\* C3: a pairwise stitch that has gone on to compositing has a homography
\* that is invertible and has at least 4 inliers; with fewer inliers or a
\* singular or missing matrix it has failed instead.
C3_DegenerateHomographyFails ==
    Compositing => Invertible(pair.H) /\ pair.inlierCount >= 4

\* the rasters of the canvas size
CanvasKinds == {"src_warped", "dst_resized", "pano"}

\* C4: a pairwise stitch goes past the canvas computation only with a
\* positive canvas width and height, and no warp, placement or blend raster
\* has a non-positive dimension.
C4_DegenerateCanvasFails ==
    /\ pc \in {"blend", "crop", "returned"} =>
            pair.width_pano > 0 /\ pair.height_pano > 0
    /\ \A k \in DOMAIN bufs :
            bufs[k].kind \in CanvasKinds => bufs[k].cols > 0 /\ bufs[k].rows > 0

\* the pair has returned from a sound homography and a canvas with pixels,
\* and its crop window was empty
ReturnedUncropped ==
    /\ pc = "returned"
    /\ pair.width_pano > 0 /\ pair.height_pano > 0
    /\ Invertible(pair.H) /\ pair.inlierCount >= 4
    /\ CropReturnsPano(Raster(bufs[pair.pano].cols, bufs[pair.pano].rows),
                       bufs[pair.dst_img].rows, pair.corners_src)

\* C5: when the crop window is empty the stitch returns the uncropped
\* panorama, and the raster it hands to the driver is not released.
C5_UncroppedStillUsable ==
    ReturnedUncropped =>
        /\ pair.cropped_pano = pair.pano
        /\ bufs[pair.cropped_pano].live

\* two 400x300 images, the moving one shifted sideways so that a band of
\* 100 px overlaps, on the right or on the left of the fixed image
IsOverlapScenario(c) ==
    /\ bufs[c.dst].cols = 400 /\ bufs[c.dst].rows = 300
    /\ bufs[c.src].cols = 400 /\ bufs[c.src].rows = 300
    /\ c.H \in {Hmat(1, 600, 1, 0), Hmat(1, -600, 1, 0)}

\* C6: in that scenario the stitch returns a panorama 700 px wide, give or
\* take 5, and 300 px high.
C6_OverlapScenarioSize ==
    \A k \in DOMAIN calls :
        (calls[k].result # 0 /\ IsOverlapScenario(calls[k])) =>
            /\ Abs(bufs[calls[k].result].cols - 700) <= 5
            /\ bufs[calls[k].result].rows = 300

\* the panorama X the running pair has composited, with the arguments
\* cropPanorama is called with
CropArgs ==
    [pano |-> Raster(bufs[pair.pano].cols, bufs[pair.pano].rows),
     h_dst |-> bufs[pair.dst_img].rows,
     corners |-> pair.corners_src]

CropOnce == cropPanorama(CropArgs.pano, CropArgs.h_dst, CropArgs.corners)
CropTwice == cropPanorama(CropOnce, CropArgs.h_dst, CropArgs.corners)

\* C7 as stated: cropping the cropped panorama again changes nothing, for
\* every composited panorama.
C7_CropIdempotent ==
    pc \in {"crop", "returned"} => CropTwice = CropOnce

\* no transformed corner of the moving image has a negative coordinate
CornersNonNegative ==
    /\ MinOf(Xs(pair.corners_src)) >= 0
    /\ MinOf(Ys(pair.corners_src)) >= 0

\* C7 amended: cropping the cropped panorama again changes nothing when no
\* transformed corner has a negative coordinate.
C7_CropIdempotentFromOrigin ==
    (pc \in {"crop", "returned"} /\ CornersNonNegative) => CropTwice = CropOnce

C7_Witness ==
    /\ pc = "returned"
    /\ CornersNonNegative
    /\ CropOnce # CropArgs.pano
    /\ CropOnce.rows < CropArgs.pano.rows
    /\ CropTwice = CropOnce

\* the step of the running stitchTwoImages that detects the keypoints
DetectStep ==
    /\ pc = "timer"
    /\ bufs[pair.dst_img].live
    /\ pair'.kp_dst # pair.kp_dst \/ pair'.kp_src # pair.kp_src \/ pc' # pc

\* nothing of the matching, the estimation or the canvas exists for the pair
NothingPastDetection(p, log, bs, ts) ==
    /\ p.matches = << >> /\ p.good_matches = << >> /\ p.src_pts = << >>
    /\ p.H = NoH /\ p.corners_src = << >>
    /\ p.src_warped = 0 /\ p.dst_resized = 0 /\ p.pano = 0
    /\ ~\E k \in DOMAIN log :
            /\ log[k].n = p.imageNum
            /\ log[k].tag \in {"matching", "good", "homography", "inliers",
                               "canvas", "blending"}
    /\ ~\E k \in DOMAIN bs : bs[k].kind \in CanvasKinds /\ k > p.dst_img
    /\ ts \cap {"bf", "matches", "src_mat", "dst_mat", "mask", "H"} = {}

\* C8: the detection step fails with the not-enough-features error exactly
\* when the fixed or the moving image has fewer than 4 keypoints, and then
\* nothing of the matching, the homography or the canvas has happened.
C8_InsufficientFeatures ==
    [][DetectStep =>
        IF pair'.kp_dst < 4 \/ pair'.kp_src < 4
        THEN /\ pc' = "idle"
             /\ alertMsg' = FeaturesMsg
             /\ progress'.msg = "Error"
             /\ bufs' = bufs
             /\ calls' = calls
             /\ NothingPastDetection(pair', statusLog', bufs', temps')
        ELSE pc' = "match"]_vars

C8_Witness ==
    /\ pc = "idle"
    /\ alertMsg = FeaturesMsg
    /\ pair.kp_dst >= 4
    /\ pair.kp_src = 3
    /\ NothingPastDetection(pair, statusLog, bufs, temps)

\* the query indices that survive the ratio test, in order
Survivors(matches) == {k \in DOMAIN matches : PassesRatio(matches[k])}

IsSurvivorList(list, matches) ==
    /\ Len(list) = Cardinality(Survivors(matches))
    /\ {list[k] : k \in DOMAIN list} = Survivors(matches)
    /\ \A a, b \in DOMAIN list : a < b => list[a] < list[b]

\* C9: the matching step fails with the not-enough-matches error when fewer
\* than 4 correspondences survive the ratio test; otherwise the homography
\* is estimated from exactly the surviving correspondences.
C9_InsufficientMatches ==
    /\ [][(pc = "match" /\ pc' # "match") =>
            IF Cardinality(Survivors(pair'.matches)) < 4
            THEN /\ pc' = "idle"
                 /\ alertMsg' = MatchesMsg
                 /\ progress'.msg = "Error"
                 /\ pair'.src_pts = << >> /\ pair'.H = NoH
            ELSE /\ pc' = "homography"
                 /\ IsSurvivorList(pair'.good_matches, pair'.matches)]_vars
    /\ [](pc = "ransac" =>
            /\ IsSurvivorList(pair.src_pts, pair.matches)
            /\ Len(pair.src_pts) >= 4)
    /\ [][(pc = "ransac" /\ pc' = "canvas") => Len(pair.src_pts) >= 4]_vars

C9_Witness ==
    /\ pc = "ransac"
    /\ Len(pair.matches) = 5
    /\ pair.src_pts = <<1, 2, 4, 5>>

C9_WitnessFailure ==
    /\ pc = "idle"
    /\ alertMsg = MatchesMsg
    /\ Cardinality(Survivors(pair.matches)) = 3

\* one pairwise stitch done by hand: the size of the raster that
\* stitchTwoImages returns for a fixed image d, a moving image s and the
\* matrix H
StitchByHand(d, s, H) ==
    LET corners == perspectiveTransform(H, s.cols, s.rows)
        g == CanvasGeometry(d.cols, d.rows, corners)
        r == cropPanorama(Raster(g.width_pano, g.height_pano), d.rows, corners)
    IN  [cols |-> r.cols, rows |-> r.rows]

Size(h) == [cols |-> bufs[h].cols, rows |-> bufs[h].rows]

\* the first k stitches chained by hand over mats, with the matrices the
\* run estimated
RECURSIVE ChainByHand(_)
ChainByHand(k) ==
    IF k = 0 THEN Size(mats[1])
    ELSE StitchByHand(ChainByHand(k - 1), Size(mats[k + 1]), calls[k].H)

\* the loop of the driver has ended and the result is being encoded
RunCompleted == pc = "blob"

\* C10: the driver is an in-order fold.  The accumulator starts as a copy of
\* the first image; stitch k is handed the result of stitch k-1 as the fixed
\* image and input k+1 as the moving image; every returned raster has the
\* size that chaining the pairwise stitch by hand gives; a completed run of
\* N images has made exactly N-1 stitches and its result is the last one's.
C10_InOrderFold ==
    /\ mats # << >> =>
        /\ bufs[Len(mats) + 1].kind = "clone"
        /\ Size(Len(mats) + 1) = Size(mats[1])
    /\ \A k \in DOMAIN calls :
        /\ calls[k].src = mats[k + 1]
        /\ calls[k].dst = IF k = 1 THEN Len(mats) + 1 ELSE calls[k - 1].result
        /\ k < Len(calls) => calls[k].result # 0
        /\ calls[k].result # 0 => Size(calls[k].result) = ChainByHand(k)
    /\ RunCompleted =>
        /\ Len(mats) >= 2
        /\ Len(calls) = Len(mats) - 1
        /\ panoramaResult = calls[Len(calls)].result
        /\ Size(panoramaResult) = ChainByHand(Len(mats) - 1)

C10_Witness ==
    /\ RunCompleted
    /\ Len(mats) = 3
    /\ calls[1].H = Hmat(1, 600, 1, 0)
    /\ calls[2].H = Hmat(1, 1200, 1, 0)
    /\ Size(panoramaResult) = [cols |-> 1000, rows |-> 300]

\* the status events of the pairwise stitch, in the order of the pipeline
StageTags == <<"pair", "features", "keypoints", "matching", "good",
               "homography", "inliers", "canvas", "blending", "cropping",
               "stitched">>

IsStageEvent(e) == \E k \in DOMAIN StageTags : StageTags[k] = e.tag
IsRunEvent(e) == e.tag # "uploaded"
IsBodyEvent(e) == e.tag \notin {"uploaded", "error", "complete"}

\* the events of the run in the log, without the uploads that happen
\* beside it
RunEvents == SelectSeq(statusLog, IsRunEvent)
StageEvents == SelectSeq(statusLog, IsStageEvent)
BodyEvents == SelectSeq(statusLog, IsBodyEvent)

\* the j-th stage event of a run: pair 1 in pipeline order, then pair 2, ...
StageAt(j) ==
    Log(StageTags[((j - 1) % Len(StageTags)) + 1], ((j - 1) \div Len(StageTags)) + 1)

\* the log of a run of n images that has emitted m stage events
ExpectedLog(n, m) ==
    <<Log("started", 0), Log("loaded", n)>>
        \o [k \in 1..n |-> Log("image", k)]
        \o [j \in 1..m |-> StageAt(j)]

\* the stage events the running pair has emitted at each position
EmittedAt ==
    [timer |-> 1, match |-> 3, homography |-> 5, ransac |-> 6, canvas |-> 7,
     warp |-> 8, blend |-> 9, crop |-> 10, returned |-> 11, blob |-> 11]

\* C11: the status events of a run are in the log in the order they were
\* emitted, none lost: a run starts from a log holding only the start
\* banner; the run's events are the banner, the load events, then the stage
\* events pair by pair in pipeline order; the running pair has logged
\* exactly the stages it has passed; an error or completion comes last.
C11_LogOrder ==
    /\ [][(stitchWithOpenCV /\ processing') =>
            statusLog' = <<Log("started", 0)>>]_vars
    /\ [](IF mats = << >>
          THEN BodyEvents \in {<< >>, <<Log("started", 0)>>}
          ELSE BodyEvents = ExpectedLog(Len(mats), Len(StageEvents)))
    /\ [](pc \in DOMAIN EmittedAt =>
            Len(StageEvents) = Len(StageTags) * (pair.imageNum - 1) + EmittedAt[pc])
    /\ [](\A k \in DOMAIN RunEvents :
            RunEvents[k].tag \in {"error", "complete"} => k = Len(RunEvents))

C11_Witness ==
    /\ pc = "returned"
    /\ pair.imageNum = 2
    /\ Len(StageEvents) = 2 * Len(StageTags)
    /\ \E k \in DOMAIN statusLog : statusLog[k].tag = "uploaded"

\* the running stitchTwoImages has ended, by its return or by a throw
PairEnded == pc = "returned" \/ PairFailed

\* the run has ended: the result is handed to the encoder, or the catch
\* block has run
RunEnded == pc = "blob" \/ (pc = "idle" /\ bufs # << >>)

\* C12: when a pair has ended every object it created is released, except
\* the raster it returns; once the driver has taken the result of a pair
\* the accumulator that pair was handed is released; when the run has ended
\* no raster and no other object of the run is left unreleased.
C12_BuffersReleased ==
    /\ PairEnded =>
        /\ temps = {} /\ leaked = {}
        /\ \A k \in DOMAIN bufs :
            (bufs[k].kind \in CanvasKinds /\ k # pair.cropped_pano) => ~bufs[k].live
    /\ \A k \in DOMAIN calls :
        (calls[k].result # 0 /\ panoramaResult # calls[k].dst) =>
            ~bufs[calls[k].dst].live
    /\ RunEnded =>
        /\ leaked = {}
        /\ \A k \in DOMAIN bufs : ~bufs[k].live

\* the positions of the fold: from the seed to the return of the last pair
InFold == pc \in {"timer", "match", "homography", "ransac", "canvas", "warp",
                  "blend", "crop", "returned"}

IsInput(h) == \E k \in DOMAIN mats : mats[k] = h

\* C13: the accumulator is a copy of the first image and never one of the
\* input images; no step of the fold changes or releases an input image;
\* when a run has completed each input image and the final accumulator have
\* been released exactly once, and no raster is ever released twice.
C13_AccumulatorIsCopy ==
    /\ [](panoramaResult # 0 => ~IsInput(panoramaResult))
    /\ [](\A k \in DOMAIN calls :
            ~IsInput(calls[k].dst) /\ ~IsInput(calls[k].result))
    /\ [][(InFold /\ pc' # "blob") =>
            \A k \in DOMAIN mats : bufs'[mats[k]] = bufs[mats[k]]]_vars
    /\ [](InFold => \A k \in DOMAIN mats :
            bufs[mats[k]].live /\ bufs[mats[k]].deletes = 0)
    /\ [](RunCompleted =>
            /\ \A k \in DOMAIN mats : bufs[mats[k]].deletes = 1
            /\ bufs[panoramaResult].deletes = 1)
    /\ [](\A k \in DOMAIN bufs : bufs[k].deletes <= 1)

C13_Witness ==
    /\ RunCompleted
    /\ Len(mats) = 3
    /\ bufs[Len(mats) + 1].kind = "clone"
    /\ \A k \in DOMAIN mats : bufs[mats[k]].deletes = 1
    /\ bufs[panoramaResult].deletes = 1

\* the canvas of the running pair is computed
CanvasComputed == pc \in {"warp", "blend", "crop", "returned"}

\* the four corners of the fixed image, in half pixels
FixedCorners ==
    LET w == bufs[pair.dst_img].cols
        h == bufs[pair.dst_img].rows
    IN  << <<0, 0>>, <<0, 2 * h>>, <<2 * w, 2 * h>>, <<2 * w, 0>> >>

\* the bounding box of the transformed moving corners and the fixed corners
BoxMinX == MinOf(Xs(pair.corners_src) \cup Xs(FixedCorners))
BoxMinY == MinOf(Ys(pair.corners_src) \cup Ys(FixedCorners))
BoxMaxY == MaxOf(Ys(pair.corners_src) \cup Ys(FixedCorners))

\* C14: with tx = -minX and ty = -minY over the eight corners, the side is
\* left exactly when the transformed top-left corner has x < 0; left gives
\* width ceil(fixedWidth + tx) and x-offset round(tx); right gives width
\* ceil(transformed top-right x) and x-offset 0; the height is
\* ceil(maxY - minY) and the y-offset round(ty).
C14_CanvasGeometry ==
    CanvasComputed =>
        /\ pair.corners_src = perspectiveTransform(pair.H, bufs[pair.src_img].cols,
                                                   bufs[pair.src_img].rows)
        /\ pair.t_x = -BoxMinX /\ pair.t_y = -BoxMinY
        /\ pair.side = "left" <=> pair.corners_src[1][1] < 0
        /\ pair.side \in {"left", "right"}
        /\ pair.side = "left" =>
            /\ pair.width_pano = Ceil2(2 * bufs[pair.dst_img].cols + pair.t_x)
            /\ pair.dst_x = Round2(pair.t_x)
        /\ pair.side = "right" =>
            /\ pair.width_pano = Ceil2(pair.corners_src[4][1])
            /\ pair.dst_x = 0
        /\ pair.height_pano = Ceil2(BoxMaxY - BoxMinY)
        /\ pair.dst_y = Round2(pair.t_y)

C14_Witness ==
    /\ pc = "blend"
    /\ pair.side = "left"
    /\ pair.t_x % 2 = 1 /\ pair.t_y % 2 = 1
    /\ pair.width_pano = bufs[pair.dst_img].cols + (pair.t_x + 1) \div 2
    /\ pair.height_pano > bufs[pair.dst_img].rows

\* the window cropPanorama computes for the panorama of the running pair
PairCropWindow == CropWindow(CropArgs.pano, CropArgs.h_dst, CropArgs.corners)

\* C15: for a left-extension the crop window starts at the absolute
\* difference of the transformed top-right x and top-left x of the moving
\* image; for a right-extension it ends at the smaller of the transformed
\* bottom-right x and top-right x.
C15_HorizontalCropWindow ==
    pc \in {"crop", "returned"} =>
        LET c == pair.corners_src
        IN  IF c[1][1] < 0
            THEN PairCropWindow.x = Max2(0, Floor2(Abs(c[4][1] - c[1][1])))
            ELSE PairCropWindow.x + PairCropWindow.width =
                    Min2(CropArgs.pano.cols, Ceil2(Min2(c[3][1], c[4][1])))

\* the right-extension half of C15 alone
C15_RightEdge ==
    (pc \in {"crop", "returned"} /\ pair.corners_src[1][1] >= 0) =>
        PairCropWindow.x + PairCropWindow.width =
            Min2(CropArgs.pano.cols,
                 Ceil2(Min2(pair.corners_src[3][1], pair.corners_src[4][1])))

\* out is Math.round(a / b): the integer nearest to a / b, halves upwards
IsRounded(out, a, b) == 2 * b * out <= 2 * a + b /\ 2 * a + b < 2 * b * (out + 1)

Between(v, a, b) == Min2(a, b) <= v /\ v <= Max2(a, b)

\* C16: a pixel of the overlap mask gets, per channel, the rounded mean of
\* the fixed and the moving channel weighted by d_dst and d_src, or their
\* rounded plain mean when d_dst + d_src is below 0.01, and the result lies
\* between the two channel values; a pixel only in the fixed mask gets the
\* fixed pixel; a pixel only in the moving mask, with alpha above 10, gets
\* the moving pixel; every other pixel stays black.
C16_BlendSelection ==
    pc = "pixel_done" =>
        LET p == pair
            total == p.d_dst + p.d_src
            out == p.pano_pix
        IN  /\ (HasDst(p) /\ HasSrc(p)) =>
                \A c \in 1..3 :
                    /\ IF 100 * total < DistUnit
                       THEN IsRounded(out[c], p.dst_pix[c] + p.src_pix[c], 2)
                       ELSE IsRounded(out[c], p.dst_pix[c] * p.d_dst
                                                + p.src_pix[c] * p.d_src, total)
                    /\ Between(out[c], p.dst_pix[c], p.src_pix[c])
            /\ (HasDst(p) /\ ~HasSrc(p)) =>
                \A c \in 1..3 : out[c] = p.dst_pix[c]
            /\ (HasSrc(p) /\ ~HasDst(p) /\ p.src_pix[4] > 10) =>
                \A c \in 1..3 : out[c] = p.src_pix[c]
            /\ (~HasDst(p) /\ (~HasSrc(p) \/ p.src_pix[4] <= 10)) =>
                out = <<0, 0, 0>>

C16_Witness ==
    /\ pc = "pixel_done"
    /\ HasDst(pair) /\ HasSrc(pair)
    /\ pair.d_dst = 1 /\ pair.d_src = 2
    /\ pair.dst_pix = <<200, 100, 50>>
    /\ pair.src_pix = <<1, 2, 250, 255>>
    /\ pair.pano_pix = <<67, 35, 183>>

\* C17: a query's best match is kept exactly when the query has at least
\* two candidates and distance(best) < 0.75 * distance(second-best); every
\* other query contributes nothing, and a query contributes at most once.
C17_RatioTest ==
    pc = "ratio_done" =>
        LET kept == {pair.good_matches[k] : k \in DOMAIN pair.good_matches}
        IN  /\ \A q \in DOMAIN pair.matches :
                q \in kept <=>
                    /\ Len(pair.matches[q]) >= 2
                    /\ 100 * pair.matches[q][1] < 75 * pair.matches[q][2]
            /\ kept \subseteq DOMAIN pair.matches
            /\ \A a, b \in DOMAIN pair.good_matches :
                a # b => pair.good_matches[a] # pair.good_matches[b]

C17_Witness ==
    /\ pc = "ratio_done"
    /\ pair.matches = << <<1>>, <<2, 4>> >>
    /\ pair.good_matches = <<2>>

\* C18: a run that has set processing eventually has it reset, whether the
\* run succeeds or fails; a published panorama comes with processing reset
\* and the naming dialog shown.
C18_ProcessingEnds ==
    /\ processing ~> ~processing
    /\ [](panorama # "" => (~processing /\ showNameModal))

\* the encoder has called back without a blob: the run is over and
\* processing is still set
C18_StuckAfterNullBlob ==
    /\ pc = "idle"
    /\ processing
    /\ panorama = ""

\* the copy loop of the running pair has run
FixedPlaced == pc \in {"blend", "crop", "returned"}

\* C19: the whole fixed image fits inside the canvas: the offsets are not
\* negative, x-offset + fixed width <= canvas width and y-offset + fixed
\* height <= canvas height, so the copy loop skips no pixel.
C19_FixedImageFits ==
    FixedPlaced =>
        /\ pair.dst_x >= 0 /\ pair.dst_y >= 0
        /\ pair.dst_x + bufs[pair.dst_img].cols <= pair.width_pano
        /\ pair.dst_y + bufs[pair.dst_img].rows <= pair.height_pano

\* a sound homography whose canvas is narrower than the fixed image
C19_NarrowCanvas ==
    /\ FixedPlaced
    /\ Invertible(pair.H) /\ pair.inlierCount >= 4
    /\ pair.width_pano > 0
    /\ pair.dst_x + bufs[pair.dst_img].cols > pair.width_pano

\* C20: the fixed image is placed at (round(t_x), round(t_y)) for the
\* (t_x, t_y) composed into the warp of the moving image; in particular a
\* right-extension, whose fixed x-offset is 0, has t_x = 0.
C20_SameFrame ==
    FixedPlaced =>
        /\ pair.dst_x = Round2(pair.t_x)
        /\ pair.dst_y = Round2(pair.t_y)
        /\ pair.side = "right" => pair.t_x = 0

\* a right-extension of a sound homography whose warp is shifted sideways
\* while the fixed image is not
C20_ShiftedWarp ==
    /\ FixedPlaced
    /\ Invertible(pair.H) /\ pair.inlierCount >= 4
    /\ pair.side = "right"
    /\ pair.t_x > 0
    /\ pair.dst_x = 0

\* C21: whenever the crop window is positive the cropped panorama has the
\* height of the fixed image and starts at the canvas row at which the
\* fixed image was placed, so every accumulator of the fold has the height
\* of the first image.
C21_CropHeight ==
    /\ (pc = "returned" /\ ~CropReturnsPano(CropArgs.pano, CropArgs.h_dst,
                                            CropArgs.corners)) =>
        /\ bufs[pair.cropped_pano].rows = bufs[pair.dst_img].rows
        /\ PairCropWindow.y = pair.dst_y
    /\ \A k \in DOMAIN calls :
        (calls[k].result # 0 /\ bufs[calls[k].result].kind = "cropped") =>
            bufs[calls[k].result].rows = bufs[mats[1]].rows

\* a sound stitch whose moving image lies lower than the fixed one and
\* whose crop is shorter than the fixed image
C21_ShorterCrop ==
    /\ pc = "returned"
    /\ Invertible(pair.H) /\ pair.inlierCount >= 4
    /\ bufs[pair.cropped_pano].kind = "cropped"
    /\ PairCropWindow.y = pair.dst_y
    /\ bufs[pair.cropped_pano].rows < bufs[pair.dst_img].rows

\* the ids of the children of a node, and the parents of a node in a tree
ChildIds(n) == {n.children[k].id : k \in DOMAIN n.children}
ParentIds(root, n) == {m.id : m \in {p \in NodeSet(root) : n.id \in ChildIds(p)}}
Hotspots(n) == {n.hotspots[k] : k \in DOMAIN n.hotspots}

Flat(root) ==
    {[id |-> n.id, imageUrl |-> n.imageUrl, label |-> n.label,
      hotspots |-> n.hotspots,
      childIds |-> [k \in DOMAIN n.children |-> n.children[k].id]] :
        n \in NodeSet(root)}

\* one node carrying the pending image is new in the tree: it is the root
\* when there was none, else the last child of the pending parent, and the
\* rest of the tree is as it was
AddedOneNode ==
    \E s \in Flat(rootNode') :
        /\ s.id \notin NodeIds(rootNode)
        /\ s.imageUrl = pendingImageUrl
        /\ s.childIds = << >> /\ s.hotspots = << >>
        /\ IF rootNode = Null
           THEN Flat(rootNode') = {s} /\ rootNode'.id = s.id
           ELSE /\ pendingParentId \in NodeIds(rootNode)
                /\ rootNode'.id = rootNode.id
                /\ Flat(rootNode') = {s} \cup
                     {IF o.id = pendingParentId
                      THEN [o EXCEPT !.childIds = Append(@, s.id)]
                      ELSE o : o \in Flat(rootNode)}

\* C23: a confirm of the label dialog with a pending image adds exactly one
\* node carrying that image, as the root when there is none and else as the
\* last child of the node whose add button was clicked, and changes nothing
\* else of the tree; the pending image is never dropped.
C23_ConfirmAddsNode ==
    [][(handleLabelSubmit /\ pendingImageUrl # "") => AddedOneNode]_vars

\* the label dialog shows a pending image, there is a root and no pending
\* parent
C23_PendingWithoutParent ==
    /\ showLabelModal
    /\ pendingImageUrl # ""
    /\ rootNode # Null
    /\ pendingParentId = 0

\* the ids no node of the tree has
UnknownIds == (1..(MaxNodes + 1)) \ NodeIds(rootNode)

\* C24: tour mode is on only while a node is viewed; starting the tour sets
\* tour mode and views the root, a click on a hotspot changes the viewed node
\* only to a node of the tree, navigating to an unknown id leaves the viewed
\* node as it is, and closing the viewer clears the viewed node and tour
\* mode.
C24_TourMode ==
    /\ [](isTourMode => viewingImage # Null)
    /\ [](\A id \in UnknownIds :
            Navigate(rootNode, viewingImage, id) = viewingImage)
    /\ [][/\ handleTourStart => isTourMode' /\ viewingImage' = rootNode
          /\ handleLeftClick =>
                \/ viewingImage' = viewingImage
                \/ viewingImage' \in NodeSet(rootNode)
          /\ handleViewerClose => viewingImage' = Null /\ ~isTourMode']_vars

\* in tour mode a link hotspot has led from the root to one of its children
C24_Witness ==
    /\ isTourMode
    /\ rootNode # Null /\ viewingImage # Null
    /\ viewingImage.id \in ChildIds(rootNode)
    /\ \E h \in Hotspots(rootNode) : h.targetNodeId = viewingImage.id
    /\ UnknownIds # {}

====
